---- MODULE Spec2Model ----
(***************************************************************************)
(* Model of the cat-toy control core in TTCatToy.ino: the debounced button *)
(* monitor (checkButton), the mode state machine, and the three mode       *)
(* behaviours (runNormalMode, runAutoMode, runLEDMode) with the servo      *)
(* update filter (updateServos) and the ring wipe (colorWipe).             *)
(*                                                                         *)
(* Time is kept relative: since_check = millis() - last_button_check and   *)
(* since_move = millis() - last_move, each saturating at the first value   *)
(* from which the comparison the code makes with it no longer changes.     *)
(***************************************************************************)
EXTENDS Integers, Sequences, FiniteSets, TLC

\* ------------------------------------------------------------ constants

MODE_NORMAL == 0
MODE_AUTO == 1
MODE_LED == 2

LED_COUNT == 16

MIN_PAN == 23
MAX_PAN == 150
MIN_TILT == 2
MAX_TILT == 37

BUTTON_CHECK_INTERVAL == 100

MIN_RAPID_INTERVAL == 100
MAX_RAPID_INTERVAL == 800
MIN_NORMAL_INTERVAL == 1000
MAX_NORMAL_INTERVAL == 4000

MIN_RAPID_MOVES == 10
MAX_RAPID_MOVES == 15
MIN_NORMAL_MOVES == 3
MAX_NORMAL_MOVES == 8

\* analogRead() range
ADC_MAX == 1023
\* tilt thresholds of runAutoMode
PAN_HIGH == 144
PAN_LOW == 54
TILT_HIGH_MIN == 24
TILT_LOW_MIN == 12
\* delay() arguments
NORMAL_DELAY == 50
LED_DELAY == 10
WIPE_WAIT == 40
\* initial laser PWM value
LASER_INIT == 255
\* PWM and colour ranges
PWM_MAX == 255
FADE_MIN == 60
HUE_SPAN == 65536

LOW == FALSE
HIGH == TRUE

\* ------------------------------------------------------------ bounds

\* the counters of physical presses and of release events saturate here
MaxPresses == 2

\* ------------------------------------------------------------ helpers

Abs(x) == IF x < 0 THEN -x ELSE x

Min2(a, b) == IF a < b THEN a ELSE b

\* C integer division: truncation toward zero
CDiv(a, b) ==
  IF (a >= 0) = (b > 0) THEN Abs(a) \div Abs(b) ELSE -(Abs(a) \div Abs(b))

\* Arduino map(): long arithmetic, (x - in_min) * (out_max - out_min) /
\* (in_max - in_min) + out_min
map(x, in_min, in_max, out_min, out_max) ==
  CDiv((x - in_min) * (out_max - out_min), in_max - in_min) + out_min

\* Arduino random(min, max): the values a call can return, min .. max-1
random(lo, hi) == lo..(hi - 1)

\* conversion of a long to a 16-bit int (AVR) and of an int to uint16_t
ToInt16(x) == ((x + 32768) % 65536) - 32768

ToUint16(x) == x % 65536

\* a timer that has run t ms, dt ms later, saturating at cap
Elapsed(t, dt, cap) == IF t + dt > cap THEN cap ELSE t + dt

\* the values of S that the environment profile selects
Pick(S, C) == S \cap C

\* ------------------------------------------------------------ state

VARIABLES
  run_mode,            \* MODE
  led_pin,             \* status indicator output
  laser_pin,           \* last analogWrite(LASER, ...)
  laser_brightness,    \* module-level variable
  button_was_pressed,  \* static of checkButton
  since_check,         \* millis() - last_button_check, saturating
  rapid_mode,          \* statics of runAutoMode
  since_move,          \* millis() - last_move, saturating at move_interval
  move_interval,
  rapid_move_max,
  normal_move_max,
  cur_rapid_moves,
  cur_normal_moves,
  auto_init,           \* the statics of runAutoMode have been initialised
  pan_pos,             \* module-level position variables
  tilt_pos,
  read_pan,            \* the pot readings of the last runNormalMode call
  read_tilt,
  old_pan_pos,         \* statics of updateServos
  old_tilt_pos,
  pan_servo,           \* angle last written to each servo (0: none yet)
  tilt_servo,
  strip,               \* colour of every ring cell
  ring_pan,            \* the pot readings of the last colour computation
  ring_tilt,           \* (entering LED mode, runLEDMode)
  pc,                  \* position in loop(): "check", "hold", "run"
  button_down,         \* physical button (digitalRead(BUTTON) = LOW)
  op,                  \* the program step taken last
  fired,               \* the last step was a poll that emitted a release event
  pan_wr,              \* the last step wrote the pan / tilt servo
  tilt_wr,
  moved,               \* the last step was a runAutoMode call that made a move
  flipped,             \* the cadence that call ended: "rapid", "normal"
                       \* ("none": no flip)
  burst_moves,         \* moves made since the cadence last flipped
  presses,             \* physical presses so far (saturating at MaxPresses)
  releases,            \* release events so far (while Tracked)
  seen,                \* the latest press was sampled pressed (while Tracked)
  polled,              \* a poll sampled the button since it last changed
                       \* (while Tracked)
  since_release,       \* ms since the last release event, saturating
  events3              \* release events so far, modulo 3

buttonVars == <<button_was_pressed, since_check>>
sweepVars == <<rapid_mode, move_interval, rapid_move_max, normal_move_max,
               cur_rapid_moves, cur_normal_moves, auto_init, burst_moves>>
posVars ==
  <<pan_pos, tilt_pos, read_pan, read_tilt, old_pan_pos, old_tilt_pos>>
servoVars == <<pan_servo, tilt_servo>>
outVars == <<led_pin, laser_pin, laser_brightness, strip>>
ringVars == <<ring_pan, ring_tilt>>
countVars == <<presses, releases, seen, polled>>
stepVars == <<op, fired, pan_wr, tilt_wr, moved, flipped>>

vars == <<run_mode, buttonVars, sweepVars, since_move, posVars, servoVars,
          outVars, ringVars, pc, button_down, stepVars, countVars,
          since_release, events3>>

Pixels == 0..(LED_COUNT - 1)

\* strip.Color(0, 0, 0)
ColorOff == <<"rgb", 0, 0, 0>>

\* strip.gamma32(strip.ColorHSV(hue, sat, val)): a function of the three
\* arguments as ColorHSV receives them (uint16_t hue, uint8_t sat, val)
ColorHSV(hue, sat, val) == <<"hsv", ToUint16(hue), sat % 256, val % 256>>

\* state on entry to the first loop() call, after setup()
Init ==
  /\ run_mode = MODE_NORMAL
  /\ led_pin = LOW
  /\ laser_pin = LASER_INIT
  /\ laser_brightness = LASER_INIT
  /\ button_was_pressed = FALSE
  /\ since_check = 0
  /\ rapid_mode = FALSE
  /\ since_move = 0
  /\ move_interval = 0
  /\ rapid_move_max = 0
  /\ normal_move_max = 0
  /\ cur_rapid_moves = 0
  /\ cur_normal_moves = 0
  /\ auto_init = FALSE
  /\ pan_pos = 0
  /\ tilt_pos = 0
  /\ read_pan = 0
  /\ read_tilt = 0
  /\ old_pan_pos = 0
  /\ old_tilt_pos = 0
  /\ pan_servo = 0
  /\ tilt_servo = 0
  /\ strip = [i \in Pixels |-> ColorOff]
  /\ ring_pan = 0
  /\ ring_tilt = 0
  /\ pc = "check"
  /\ button_down = FALSE
  /\ op = "setup"
  /\ fired = FALSE
  /\ pan_wr = FALSE
  /\ tilt_wr = FALSE
  /\ moved = FALSE
  /\ flipped = "none"
  /\ burst_moves = 0
  /\ presses = 0
  /\ releases = 0
  /\ seen = FALSE
  /\ polled = FALSE
  /\ since_release = BUTTON_CHECK_INTERVAL + 1
  /\ events3 = 0


\* ------------------------------------------------------------ environment

\* releases, seen and polled follow the button from startup until the press
\* counter saturates; from then on they rest at fixed values
Tracked(n) == n < MaxPresses

\* the flags that describe the program step taken last
Mark(name, f, pw, tw, mv, fl) ==
  /\ op' = name
  /\ fired' = f
  /\ pan_wr' = pw
  /\ tilt_wr' = tw
  /\ moved' = mv
  /\ flipped' = fl

\* the user presses the button (at any moment, a bounce included)
Press ==
  /\ ~button_down
  /\ button_down' = TRUE
  /\ presses' = Min2(presses + 1, MaxPresses)
  /\ releases' = IF Tracked(presses') THEN releases ELSE MaxPresses
  /\ seen' = FALSE
  /\ polled' = FALSE
  /\ UNCHANGED <<run_mode, buttonVars, sweepVars, since_move, posVars,
                 servoVars, outVars, ringVars, pc, stepVars, since_release,
                 events3>>

\* the user lets the button go
Release ==
  /\ button_down
  /\ button_down' = FALSE
  /\ polled' = FALSE
  /\ UNCHANGED <<run_mode, buttonVars, sweepVars, since_move, posVars,
                 servoVars, outVars, ringVars, pc, stepVars, presses,
                 releases, seen, since_release, events3>>

\* ------------------------------------------------------------ checkButton

\* colorWipe(color, wait): every pixel set and shown in turn
colorWipe(color) == [i \in Pixels |-> color]

\* the time colorWipe(color, wait) takes
WipeTime == LED_COUNT * WIPE_WAIT

\* the colour of the pot readings, as computed on entering LED mode and in
\* runLEDMode: int fade_val, int pixel_hue (16-bit)
fade_val(pan_raw) == ToInt16(map(pan_raw, 0, ADC_MAX, FADE_MIN, PWM_MAX))

pixel_hue(tilt_raw) == ToInt16(map(tilt_raw, 0, ADC_MAX, 0, HUE_SPAN))

PotColor(pan_raw, tilt_raw) ==
  ColorHSV(pixel_hue(tilt_raw), PWM_MAX, fade_val(pan_raw))

\* a switch whose LED case leads back to auto mode
NextModeSkipping(m) ==
  CASE m = MODE_NORMAL -> MODE_AUTO
    [] m = MODE_AUTO -> MODE_LED
    [] m = MODE_LED -> MODE_AUTO
    [] OTHER -> m

\* the mode a release event leads to (switch (run_mode) of checkButton)
NextMode(m) ==
  CASE m = MODE_NORMAL -> MODE_AUTO
    [] m = MODE_AUTO -> MODE_LED
    [] m = MODE_LED -> MODE_NORMAL
    [] OTHER -> m

\* a checkButton without the rate limit
PollAlways(since) == TRUE

\* checkButton: the rate limit, millis() - last_button_check > 100
PollDue(since) == since > BUTTON_CHECK_INTERVAL

\* a hold-loop that does not look at the sample it takes
HoldStuck(button_pressed) == button_was_pressed

\* an if in the place of the while: the body is not repeated
HoldNever(button_pressed) == FALSE

\* checkButton: the condition of the hold-loop
HoldAgain(button_pressed) == button_pressed /\ button_was_pressed

\* a release condition that forgets the state saved at the last poll
ReleaseEdgeNoMemory(button_pressed) == ~button_pressed

\* checkButton: the condition of a release event
ReleaseEdge(button_pressed) == ~button_pressed /\ button_was_pressed

\* a poll that saves "pressed" whatever it sampled
SavedStatePressed(button_pressed) == TRUE

\* a poll that does not save the button state
SavedStateStale(button_pressed) == button_was_pressed

\* checkButton: the button state saved for the next poll
SavedState(button_pressed) == button_pressed

\* a transition out of auto mode that leaves the indicator on
IndicatorLeftOn(m, old) == IF m = MODE_NORMAL THEN HIGH ELSE old

\* checkButton: the status indicator after the transition out of mode m
\* (digitalWrite(LED, HIGH) in case MODE_NORMAL, LOW in case MODE_AUTO)
IndicatorOnLeaving(m, old) ==
  CASE m = MODE_NORMAL -> HIGH
    [] m = MODE_AUTO -> LOW
    [] OTHER -> old

\* a transition out of LED mode that leaves the ring as it is
RingKept(m, old) == old

\* checkButton: the ring after the transition out of Manual mode (no ring
\* change) or out of LED mode (cleared by colorWipe)
RingOnLeaving(m, old) == IF m = MODE_LED THEN colorWipe(ColorOff) ELSE old

\* the rest of a poll once button_pressed holds its last sample: the release
\* event with its transition, then the two saves. sm and sr are since_move and
\* since_release as the sample is taken.
FinishPoll(E, name, button_pressed, sm, sr) ==
  LET release == ReleaseEdge(button_pressed)
      wipe == IF release /\ run_mode \in {MODE_AUTO, MODE_LED}
              THEN WipeTime ELSE 0
  IN  /\ IF release
         THEN /\ run_mode' = NextMode(run_mode)
              /\ led_pin' = IndicatorOnLeaving(run_mode, led_pin)
              /\ IF run_mode = MODE_AUTO
                 THEN \E pan_raw \in E.ring, tilt_raw \in E.ring :
                        /\ ring_pan' = pan_raw
                        /\ ring_tilt' = tilt_raw
                        /\ strip' = colorWipe(PotColor(pan_raw, tilt_raw))
                 ELSE /\ strip' = RingOnLeaving(run_mode, strip)
                      /\ UNCHANGED ringVars
              /\ releases' = Min2(releases + 1, MaxPresses)
              /\ events3' = (events3 + 1) % 3
         ELSE UNCHANGED <<run_mode, led_pin, strip, ringVars, releases,
                          events3>>
      /\ since_release' =
           Elapsed(IF release THEN 0 ELSE sr, wipe, BUTTON_CHECK_INTERVAL + 1)
      /\ since_move' = Elapsed(sm, wipe, move_interval)
      /\ since_check' = 0
      /\ button_was_pressed' = SavedState(button_pressed)
      /\ polled' = Tracked(presses)
      /\ seen' = (Tracked(presses) /\ (seen \/ button_pressed))
      /\ pc' = "run"
      /\ Mark(name, release, FALSE, FALSE, FALSE, "none")

\* a checkButton call inside the 100 ms window: nothing happens
CheckSkip ==
  /\ pc = "check"
  /\ ~PollDue(since_check)
  /\ pc' = "run"
  /\ Mark("skip", FALSE, FALSE, FALSE, FALSE, "none")
  /\ UNCHANGED <<run_mode, buttonVars, sweepVars, since_move, posVars,
                 servoVars, outVars, ringVars, button_down, countVars,
                 events3, since_release>>

\* a checkButton call past the window: the button is sampled; with the
\* button down now and at the last poll the call enters the hold-loop
CheckPoll(E) ==
  /\ pc = "check"
  /\ PollDue(since_check)
  /\ IF HoldAgain(button_down)
     THEN /\ pc' = "hold"
          /\ polled' = Tracked(presses)
          /\ seen' = Tracked(presses)
          /\ Mark("enter_hold", FALSE, FALSE, FALSE, FALSE, "none")
          /\ UNCHANGED <<run_mode, buttonVars, since_move, outVars,
                         ringVars, presses, releases, events3, since_release>>
     ELSE /\ FinishPoll(E, "poll", button_down, since_move, since_release)
          /\ UNCHANGED <<laser_pin, laser_brightness, presses>>
  /\ UNCHANGED <<sweepVars, posVars, servoVars, button_down>>

\* the raw reading written to the laser
HoldLaserRaw(tilt_raw) == tilt_raw

\* hold-loop: the local laser_brightness, written to the laser output
HoldLaser(tilt_raw) == map(tilt_raw, 0, ADC_MAX, 0, PWM_MAX)

\* one pass of the hold-loop: the tilt pot sets the laser, the button is
\* sampled again; the loop is left when its condition fails
HoldLoop(E) ==
  /\ pc = "hold"
  /\ \E tilt_raw \in E.pots, dt \in E.hold :
       /\ laser_pin' = HoldLaser(tilt_raw)
       /\ IF HoldAgain(button_down)
          THEN /\ since_move' = Elapsed(since_move, dt, move_interval)
               /\ since_release' =
                    Elapsed(since_release, dt, BUTTON_CHECK_INTERVAL + 1)
               /\ polled' = Tracked(presses)
               /\ Mark("hold", FALSE, FALSE, FALSE, FALSE, "none")
               /\ UNCHANGED <<run_mode, buttonVars, led_pin, strip, ringVars,
                              pc, releases, seen, events3>>
          ELSE FinishPoll(E, "hold_exit", button_down,
                          Elapsed(since_move, dt, move_interval),
                          Elapsed(since_release, dt, BUTTON_CHECK_INTERVAL + 1))
  /\ UNCHANGED <<laser_brightness, sweepVars, posVars, servoVars, button_down,
                 presses>>

\* ------------------------------------------------------------ behaviours

\* the time a loop() pass takes: its delay() and nothing else
Pass(dt) ==
  /\ since_check' = Elapsed(since_check, dt, BUTTON_CHECK_INTERVAL + 1)
  /\ since_release' = Elapsed(since_release, dt, BUTTON_CHECK_INTERVAL + 1)

\* a pan mapping onto the whole travel of the servo
NormalPanFullTravel(pan_raw) == map(pan_raw, 0, ADC_MAX, 180, 0)

\* runNormalMode: pan_pos = map(pan_raw, 0, 1023, MAX_PAN, MIN_PAN)
NormalPan(pan_raw) == map(pan_raw, 0, ADC_MAX, MAX_PAN, MIN_PAN)

\* a tilt mapping that is not inverted
NormalTiltDirect(tilt_raw) == map(tilt_raw, 0, ADC_MAX, MIN_TILT, MAX_TILT)

\* runNormalMode: tilt_pos = map(tilt_raw, 0, 1023, MAX_TILT, MIN_TILT)
NormalTilt(tilt_raw) == map(tilt_raw, 0, ADC_MAX, MAX_TILT, MIN_TILT)

\* updateServos: whether an axis is written, from its static and its
\* position variable
ServoChanged(old_value, new_value) == Abs(old_value - new_value) > 1

\* updateServos, called with pan_pos and tilt_pos just assigned. The statics
\* old_pan_pos and old_tilt_pos are compared and never assigned.
updateServos ==
  /\ pan_wr' = ServoChanged(old_pan_pos, pan_pos')
  /\ tilt_wr' = ServoChanged(old_tilt_pos, tilt_pos')
  /\ pan_servo' = IF pan_wr' THEN pan_pos' ELSE pan_servo
  /\ tilt_servo' = IF tilt_wr' THEN tilt_pos' ELSE tilt_servo
  /\ UNCHANGED <<old_pan_pos, old_tilt_pos>>

runNormalMode(E) ==
  /\ pc = "run"
  /\ run_mode = MODE_NORMAL
  /\ \E pan_raw \in E.pots, tilt_raw \in E.pots :
       /\ read_pan' = pan_raw
       /\ read_tilt' = tilt_raw
       /\ pan_pos' = NormalPan(pan_raw)
       /\ tilt_pos' = NormalTilt(tilt_raw)
  /\ updateServos
  /\ Pass(NORMAL_DELAY)
  /\ since_move' = Elapsed(since_move, NORMAL_DELAY, move_interval)
  /\ pc' = "check"
  /\ op' = "runNormalMode"
  /\ fired' = FALSE
  /\ moved' = FALSE
  /\ flipped' = "none"
  /\ UNCHANGED <<run_mode, button_was_pressed, sweepVars, outVars, ringVars,
                 button_down, countVars, events3>>

\* a loop over the pixels that starts at pixel 1
LEDRingFromOne(old, color) ==
  [i \in Pixels |-> IF i = 0 THEN old[i] ELSE color]

\* runLEDMode: the ring after the loop over the pixels i = 0 .. numPixels()-1
\* and strip.show()
LEDRing(old, color) == [i \in Pixels |-> color]

runLEDMode(E) ==
  /\ pc = "run"
  /\ run_mode = MODE_LED
  /\ \E pan_raw \in E.ring, tilt_raw \in E.ring :
       /\ ring_pan' = pan_raw
       /\ ring_tilt' = tilt_raw
       /\ strip' = LEDRing(strip, PotColor(pan_raw, tilt_raw))
  /\ Pass(LED_DELAY)
  /\ since_move' = Elapsed(since_move, LED_DELAY, move_interval)
  /\ pc' = "check"
  /\ Mark("runLEDMode", FALSE, FALSE, FALSE, FALSE, "none")
  /\ UNCHANGED <<run_mode, button_was_pressed, sweepVars, posVars, servoVars,
                 led_pin, laser_pin, laser_brightness, button_down, countVars,
                 events3>>

\* tilt ranges with strict comparisons at the two thresholds
TiltRangeStrict(pan) ==
  IF pan > PAN_HIGH THEN random(TILT_HIGH_MIN, MAX_TILT)
  ELSE IF pan < PAN_LOW THEN random(TILT_LOW_MIN, MAX_TILT)
  ELSE random(MIN_TILT, MAX_TILT)

\* runAutoMode: the range the tilt target is drawn from, given the pan target
TiltRange(pan) ==
  IF pan >= PAN_HIGH THEN random(TILT_HIGH_MIN, MAX_TILT)
  ELSE IF pan <= PAN_LOW THEN random(TILT_LOW_MIN, MAX_TILT)
  ELSE random(MIN_TILT, MAX_TILT)

\* runAutoMode: the range the next interval is drawn from
IntervalRange(rapid) ==
  IF rapid THEN random(MIN_RAPID_INTERVAL, MAX_RAPID_INTERVAL)
  ELSE random(MIN_NORMAL_INTERVAL, MAX_NORMAL_INTERVAL)

RapidQuota == random(MIN_RAPID_MOVES, MAX_RAPID_MOVES)

\* the normal quota drawn with the bounds of the rapid one
NormalQuotaAsRapid == random(MIN_RAPID_MOVES, MAX_RAPID_MOVES)

NormalQuota == random(MIN_NORMAL_MOVES, MAX_NORMAL_MOVES)

\* a reset one move late
QuotaPassed(cur, max) == cur > max

\* runAutoMode: the condition of a reset, cur_*_moves >= *_move_max
QuotaReached(cur, max) == cur >= max

\* a runAutoMode that moves in every call
MoveAlways(since, interval) == TRUE

\* whether runAutoMode moves in this call
MoveDue(since, interval) == since >= interval

\* qr, qn: the draws of the two quotas (static initialisation on the first
\* call, a reset later); iv, pan, tilt: the draws of a move; dt: the time
\* the call takes
runAutoModeWith(qr, qn, iv, pan, tilt, dt) ==
  LET rmax0 == IF auto_init THEN rapid_move_max ELSE qr
      nmax0 == IF auto_init THEN normal_move_max ELSE qn
      since == IF auto_init THEN since_move ELSE 0
      reset_r == QuotaReached(cur_rapid_moves, rmax0)
      rmax1 == IF reset_r THEN qr ELSE rmax0
      cur_r1 == IF reset_r THEN 0 ELSE cur_rapid_moves
      rapid1 == IF reset_r THEN FALSE ELSE rapid_mode
      reset_n == QuotaReached(cur_normal_moves, nmax0)
      nmax1 == IF reset_n THEN qn ELSE nmax0
      cur_n1 == IF reset_n THEN 0 ELSE cur_normal_moves
      rapid2 == IF reset_n THEN TRUE ELSE rapid1
      move == MoveDue(since, move_interval)
      flip == rapid2 # rapid_mode
  IN  /\ auto_init' = TRUE
      /\ rapid_move_max' = rmax1
      /\ normal_move_max' = nmax1
      /\ rapid_mode' = rapid2
      /\ cur_rapid_moves' = IF move /\ rapid2 THEN cur_r1 + 1 ELSE cur_r1
      /\ cur_normal_moves' = IF move /\ ~rapid2 THEN cur_n1 + 1 ELSE cur_n1
      /\ move_interval' = IF move THEN iv ELSE move_interval
      /\ pan_servo' = IF move THEN pan ELSE pan_servo
      /\ tilt_servo' = IF move THEN tilt ELSE tilt_servo
      /\ since_move' = Elapsed(IF move THEN 0 ELSE since, dt, move_interval')
      /\ burst_moves' = (IF flip THEN 0 ELSE burst_moves)
                        + (IF move THEN 1 ELSE 0)
      /\ Mark("runAutoMode", FALSE, move, move, move,
              IF ~flip THEN "none"
              ELSE IF rapid_mode THEN "rapid" ELSE "normal")

runAutoMode(E) ==
  /\ pc = "run"
  /\ run_mode = MODE_AUTO
  /\ \E qr \in Pick(RapidQuota, E.quotas), qn \in Pick(NormalQuota, E.quotas),
        pan \in Pick(random(MIN_PAN, MAX_PAN), E.pans), dt \in E.pass :
       LET r == IF QuotaReached(cur_rapid_moves,
                                IF auto_init THEN rapid_move_max ELSE qr)
                THEN FALSE ELSE rapid_mode
           rapid == IF QuotaReached(cur_normal_moves,
                                    IF auto_init THEN normal_move_max ELSE qn)
                    THEN TRUE ELSE r
       IN  \E iv \in Pick(IntervalRange(rapid), E.intervals),
              tilt \in Pick(TiltRange(pan), E.tilts) :
             /\ runAutoModeWith(qr, qn, iv, pan, tilt, dt)
             /\ Pass(dt)
  /\ pc' = "check"
  /\ UNCHANGED <<run_mode, button_was_pressed, posVars, outVars, ringVars,
                 button_down, countVars, events3>>

\* ------------------------------------------------------------ specifications

\* one pass of loop() is checkButton, then the behaviour of the mode
Loop(E) ==
  \/ CheckSkip
  \/ CheckPoll(E)
  \/ HoldLoop(E)
  \/ runNormalMode(E)
  \/ runAutoMode(E)
  \/ runLEDMode(E)

Button ==
  \/ Press
  \/ Release

\* the inputs of the button and mode checks: one pot reading (pots: read by
\* runNormalMode and the hold-loop; ring: read for the ring colour), one draw
\* per range, loop passes and hold-loop passes of two lengths
ButtonProfile ==
  [pots |-> {0},
   ring |-> {0},
   pans |-> {MIN_PAN},
   tilts |-> {TILT_LOW_MIN},
   quotas |-> {MIN_RAPID_MOVES, MIN_NORMAL_MOVES},
   intervals |-> {MIN_RAPID_INTERVAL, MIN_NORMAL_INTERVAL},
   pass |-> {0, NORMAL_DELAY},
   hold |-> {0, BUTTON_CHECK_INTERVAL + 1}]

Next ==
  \/ Loop(ButtonProfile)
  \/ Button

Spec == Init /\ [][Next]_vars

\* the hold-loop is left: its last sample read the button released
HoldExit == HoldLoop(ButtonProfile) /\ pc' = "run"

\* the processor keeps executing loop(); a button held in the hold-loop is
\* let go in the end, and a button let go again and again is in the end
\* sampled released by the hold-loop
SpecLive ==
  /\ Init
  /\ [][Next]_vars
  /\ WF_vars(Loop(ButtonProfile))
  /\ WF_vars(pc = "hold" /\ Release)
  /\ SF_vars(HoldExit)


\* the inputs of the servo range checks: the pots at their ends, pan and
\* tilt targets at the ends of their ranges
ServoProfile ==
  [pots |-> {0, ADC_MAX},
   ring |-> {0},
   pans |-> {MIN_PAN, MAX_PAN - 1, MAX_PAN},
   tilts |-> {MIN_TILT, TILT_LOW_MIN, TILT_HIGH_MIN, MAX_TILT - 1, MAX_TILT},
   quotas |-> {MIN_RAPID_MOVES, MIN_NORMAL_MOVES},
   intervals |-> {MIN_RAPID_INTERVAL, MIN_NORMAL_INTERVAL},
   pass |-> {MIN_NORMAL_INTERVAL},
   hold |-> {0}]

NextServo ==
  \/ Loop(ServoProfile)
  \/ Button

SpecServo == Init /\ [][NextServo]_vars

\* the inputs of the aiming checks: pan targets at the ends of the range
\* and on both sides of the two tilt thresholds, tilt targets at the ends of
\* the three ranges
AimProfile ==
  [pots |-> {0},
   ring |-> {0},
   pans |-> {MIN_PAN, PAN_LOW, PAN_LOW + 1, PAN_HIGH - 1, PAN_HIGH,
             MAX_PAN - 1, MAX_PAN},
   tilts |-> {MIN_TILT, TILT_LOW_MIN, TILT_HIGH_MIN, MAX_TILT - 1, MAX_TILT},
   quotas |-> {MIN_RAPID_MOVES, MIN_NORMAL_MOVES},
   intervals |-> {MIN_RAPID_INTERVAL, MIN_NORMAL_INTERVAL},
   pass |-> {0, MIN_NORMAL_INTERVAL},
   hold |-> {0}]

NextAim ==
  \/ Loop(AimProfile)
  \/ Button

SpecAim == Init /\ [][NextAim]_vars

\* the inputs of the cadence checks: every quota, the shortest interval of
\* each cadence, loop passes that take no time or a whole interval
SweepProfile ==
  [pots |-> {0},
   ring |-> {0},
   pans |-> {MIN_PAN},
   tilts |-> {TILT_LOW_MIN},
   quotas |-> MIN_NORMAL_MOVES..MAX_RAPID_MOVES,
   intervals |-> {MIN_RAPID_INTERVAL, MIN_NORMAL_INTERVAL},
   pass |-> {0, MIN_NORMAL_INTERVAL},
   hold |-> {0}]

NextSweep ==
  \/ Loop(SweepProfile)
  \/ Button

SpecSweep == Init /\ [][NextSweep]_vars

\* the inputs of the ring and output checks: the pots at their ends, the
\* readings for the ring colour at their ends and past the middle
RingProfile ==
  [pots |-> {0, ADC_MAX},
   ring |-> {0, ADC_MAX \div 2 + 1, ADC_MAX},
   pans |-> {MIN_PAN},
   tilts |-> {TILT_LOW_MIN},
   quotas |-> {MIN_RAPID_MOVES, MIN_NORMAL_MOVES},
   intervals |-> {MIN_RAPID_INTERVAL, MIN_NORMAL_INTERVAL},
   pass |-> {MIN_NORMAL_INTERVAL},
   hold |-> {0}]

NextRing ==
  \/ Loop(RingProfile)
  \/ Button

SpecRing == Init /\ [][NextRing]_vars

\* the inputs of the timing checks: the shortest and the longest interval of
\* each cadence (and the bounds passed to random()), loop passes that take no
\* time or the shortest interval
TimingProfile ==
  [pots |-> {0},
   ring |-> {0},
   pans |-> {MIN_PAN},
   tilts |-> {TILT_LOW_MIN},
   quotas |-> {MIN_RAPID_MOVES, MIN_NORMAL_MOVES},
   intervals |-> {MIN_RAPID_INTERVAL, MAX_RAPID_INTERVAL - 1,
                  MAX_RAPID_INTERVAL, MIN_NORMAL_INTERVAL,
                  MAX_NORMAL_INTERVAL - 1, MAX_NORMAL_INTERVAL},
   pass |-> {0, MIN_RAPID_INTERVAL},
   hold |-> {0}]

NextTiming ==
  \/ Loop(TimingProfile)
  \/ Button

SpecTiming == Init /\ [][NextTiming]_vars

\* ------------------------------------------------------------ properties

\* a step of the program (the button does not move in it)
ProgramStep == button_down' = button_down

\* a step that ends a poll of checkButton
PollEnd ==
  /\ ProgramStep
  /\ pc \in {"check", "hold"}
  /\ since_check > BUTTON_CHECK_INTERVAL
  /\ pc' = "run"

\* a step that ends a poll in which the button, sampled pressed at the poll
\* before, is sampled released: a release event
EdgeStep == PollEnd /\ button_was_pressed /\ ~button_down

\* the mode k steps along the cycle Manual -> Autonomous -> Ambient -> Manual
CycleMode(k) ==
  CASE k = 0 -> MODE_NORMAL
    [] k = 1 -> MODE_AUTO
    [] k = 2 -> MODE_LED

\* C1: every release event advances the mode one step along the cycle
\* Manual -> Autonomous -> Ambient -> Manual: the mode is always the one
\* reached from Manual by as many steps as release events have fired, counted
\* modulo 3, so three consecutive release events lead back to the same mode
\* and no release event keeps the mode or skips one.
C1_ModeFollowsCycle == run_mode = CycleMode(events3)

\* C1 witness: a release event has just led from Ambient back to Manual.
C1_Witness == fired /\ op = "poll" /\ run_mode = MODE_NORMAL /\ events3 = 0

\* C2: the mode changes only in a step that ends a poll with a
\* pressed-then-released edge; every other step (the behaviours, the
\* hold-loop passes, the polls without an edge, the skipped calls) keeps it.
C2_ModeChangesOnlyOnRelease == [][run_mode' # run_mode => EdgeStep]_vars

\* C2 witness: in Ambient mode, a behaviour has run and a poll without an
\* edge has ended, the mode still Ambient.
C2_Witness == op = "poll" /\ ~fired /\ run_mode = MODE_LED /\ button_was_pressed

\* C3 (as amended): the button pressed and released once from startup, the
\* press sampled by at least one poll and a poll taken since the release:
\* the mode is Autonomous, the indicator on, one release event fired.
C3_OnePressOnceSampled ==
  (presses = 1 /\ ~button_down /\ seen /\ polled)
    => (run_mode = MODE_AUTO /\ led_pin = HIGH /\ releases = 1)

\* C3 witness: the press was held into the hold-loop, released, and the
\* hold-loop has ended the poll.
C3_Witness ==
  /\ presses = 1
  /\ ~button_down
  /\ seen
  /\ polled
  /\ op = "hold_exit"
  /\ run_mode = MODE_AUTO

\* C3 (as stated): the button pressed and released once from startup, for any
\* hold duration, and a poll taken since the release: the mode is Autonomous,
\* the indicator on, one release event fired.
C3_OnePressAnyDuration ==
  (presses = 1 /\ ~button_down /\ polled)
    => (run_mode = MODE_AUTO /\ led_pin = HIGH /\ releases = 1)


\* the three mode behaviours
Behaviours == {"runNormalMode", "runAutoMode", "runLEDMode"}

\* a step that executes a mode behaviour
BehaviourStep == ProgramStep /\ pc = "run" /\ pc' = "check"

\* C4 (as stated): a Manual cycle writes an axis only when the new angle
\* differs by more than 1 degree from the angle last written to that axis.
C4_NoWriteWithinDeadband ==
  [][(BehaviourStep /\ op' = "runNormalMode") =>
       /\ pan_wr' => Abs(pan_pos' - pan_servo) > 1
       /\ tilt_wr' => Abs(tilt_pos' - tilt_servo) > 1]_vars

\* every reading of a pot maps to an angle inside the range of its axis,
\* and every target runAutoMode can draw lies inside too
AllAnglesInRange ==
  /\ \A r \in 0..1023 : NormalPan(r) \in 23..150 /\ NormalTilt(r) \in 2..37
  /\ \A p \in random(MIN_PAN, MAX_PAN) :
       p \in 23..150 /\ TiltRange(p) \subseteq 2..37

\* C5: every angle written to the pan servo lies in [23,150] and every angle
\* written to the tilt servo in [2,37], by updateServos in Manual mode and by
\* the direct writes of Autonomous mode, for every pot reading in 0..1023
\* and every target that can be drawn.
C5_AnglesInRange ==
  /\ pan_wr => pan_servo \in 23..150
  /\ tilt_wr => tilt_servo \in 2..37
  /\ pan_servo \in {0} \cup (23..150)
  /\ tilt_servo \in {0} \cup (2..37)
  /\ AllAnglesInRange

\* C5 witness: after a Manual cycle at the low end of both ranges, an
\* Autonomous move has written the highest targets it can draw.
C5_Witness ==
  /\ op = "runAutoMode"
  /\ pan_wr
  /\ tilt_wr
  /\ pan_servo = 149
  /\ tilt_servo = 36
  /\ pan_pos = 23
  /\ tilt_pos = 2

\* the tilt range the claim gives for a pan target
ClaimedTilt(pan) ==
  IF pan >= 144 THEN 24..37 ELSE IF pan <= 54 THEN 12..37 ELSE 2..37

\* every pan target that can be drawn gets its tilt from the claimed range
AllPansAimed ==
  \A p \in random(MIN_PAN, MAX_PAN) : TiltRange(p) \subseteq ClaimedTilt(p)

\* C6: in every Autonomous move the tilt written lies in the range that the
\* pan written in the same move selects: [24,37] for pan >= 144, [12,37]
\* for pan <= 54, [2,37] otherwise.
C6_TiltFollowsPan ==
  /\ moved => tilt_servo \in ClaimedTilt(pan_servo)
  /\ AllPansAimed

\* C6 witness: a move to pan 144 with the lowest tilt of its range.
C6_Witness == moved /\ op = "runAutoMode" /\ pan_servo = 144 /\ tilt_servo = 24

\* C7: when the cadence flips, the burst that ends counts 10 to 15 moves if
\* it was rapid and 3 to 8 moves if it was normal, the first burst after
\* startup and bursts interrupted by other modes included.
C7_BurstLengths ==
  [][rapid_mode' # rapid_mode =>
       IF rapid_mode THEN burst_moves \in 10..15 ELSE burst_moves \in 3..8]_vars

\* C7 witness: a rapid burst has just ended (a normal one before it).
C7_Witness ==
  /\ op = "runAutoMode"
  /\ flipped = "rapid"
  /\ ~rapid_mode
  /\ cur_rapid_moves = 0

\* the mapping at the ends of the pot range, and its order over all readings
MappingInverted ==
  /\ NormalPan(0) = 150
  /\ NormalTilt(0) = 37
  /\ NormalPan(1023) = 23
  /\ NormalTilt(1023) = 2
  /\ \A a \in 0..1023 : \A b \in a..1023 :
       NormalPan(a) >= NormalPan(b) /\ NormalTilt(a) >= NormalTilt(b)

\* C8: the Manual mapping is inverted and exact at its ends: reading 0 gives
\* pan 150 and tilt 37, reading 1023 gives pan 23 and tilt 2 (in every Manual
\* cycle that reads them), and a larger reading never gives a larger angle.
C8_InvertedMapping ==
  /\ op = "runNormalMode" =>
       /\ read_pan = 0 => pan_pos = 150
       /\ read_pan = 1023 => pan_pos = 23
       /\ read_tilt = 0 => tilt_pos = 37
       /\ read_tilt = 1023 => tilt_pos = 2
  /\ MappingInverted

\* C8 witness: a Manual cycle has mapped reading 0 on the pan pot and
\* reading 1023 on the tilt pot.
C8_Witness ==
  /\ op = "runNormalMode"
  /\ read_pan = 0
  /\ read_tilt = 1023
  /\ pan_pos = 150
  /\ tilt_pos = 2

\* C9: a release event fires only at the end of a due poll that finds the
\* memory of the previous poll set and samples the button released, and more
\* than 100 ms after the release event before it.
C9_ReleaseEventsSpaced ==
  [][events3' # events3 =>
       /\ PollEnd
       /\ button_was_pressed
       /\ ~button_down
       /\ since_release > 100]_vars

\* C9 witness: a second release event has fired.
C9_Witness == fired /\ run_mode = MODE_LED /\ events3 = 2

\* C10 (as amended): the hold-loop is entered at a due poll that samples the
\* button pressed with the memory set, it is left only on a sample that reads
\* released, and no mode behaviour executes in between.
C10_HoldLoopBlocks ==
  [][ProgramStep =>
       /\ (pc = "check" /\ since_check > 100 /\ button_was_pressed
             /\ button_down) => pc' = "hold"
       /\ (pc = "hold" /\ button_down) => pc' = "hold"
       /\ pc = "hold" => op' \notin Behaviours
       /\ op' \in Behaviours => pc = "run"]_vars

\* C10 witness: the hold-loop is running, a pass made with the button held.
C10_Witness == pc = "hold" /\ op = "hold" /\ button_down

\* C10 (as stated): no mode behaviour executes while the button is
\* physically pressed.
C10_NoBehaviourWhilePressed == [][BehaviourStep => ~button_down]_vars

\* C11 (as stated): the colour computed last (on entering Ambient mode or in
\* runLEDMode) has, in the int variables that hold them, a brightness in
\* [60,255] and a hue in [0,65535].
C11_ColourInRange ==
  /\ fade_val(ring_pan) \in 60..255
  /\ pixel_hue(ring_tilt) \in 0..65535

\* C12: after a runLEDMode call every cell of the ring holds the colour of
\* the readings of that call and nothing else: the same single colour in all
\* cells, whatever the ring, the mode history and the cadence state were.
C12_RingIsColourOfReadings ==
  op = "runLEDMode" =>
    \A i \in Pixels : strip[i] = PotColor(ring_pan, ring_tilt)

\* C12 witness: runLEDMode has run on pan reading 1023 and tilt reading 512,
\* after a cadence flip in Autonomous mode, and the ring holds their colour.
C12_Witness ==
  /\ op = "runLEDMode"
  /\ ring_pan = 1023
  /\ ring_tilt = 512
  /\ rapid_mode
  /\ strip[0] = <<"hsv", 32800, 255, 255>>
  /\ strip[LED_COUNT - 1] = strip[0]

\* C13 (as stated): once runAutoMode has drawn, the draws cover the stated
\* inclusive ranges: a rapid quota can be any of 10..15, a normal quota any
\* of 3..8, a pan target any of 23..150, and a tilt target can be 37 (at
\* pan 150 too).
C13_DrawsCoverStatedRanges ==
  auto_init =>
    /\ (10..15) \subseteq RapidQuota
    /\ (3..8) \subseteq NormalQuota
    /\ (23..150) \subseteq random(MIN_PAN, MAX_PAN)
    /\ \E p \in random(MIN_PAN, MAX_PAN) : 37 \in TiltRange(p)
    /\ 37 \in TiltRange(150)

\* C14: in Manual and in Autonomous mode every cell of the light ring is
\* off, at every main-loop iteration boundary (and likewise between
\* checkButton and the behaviour, and in the hold-loop): off at startup,
\* cleared on entering Manual, untouched on entering Autonomous and by
\* runNormalMode and runAutoMode.
C14_RingOffOutsideAmbient ==
  run_mode \in {MODE_NORMAL, MODE_AUTO} =>
    \A i \in Pixels : strip[i] = ColorOff

\* C14 witness: an iteration boundary in Autonomous mode, after a runAutoMode
\* call, the ring lit in an earlier Ambient phase (tilt reading 512).
C14_Witness ==
  /\ pc = "check"
  /\ run_mode = MODE_AUTO
  /\ op = "runAutoMode"
  /\ ring_tilt = 512
  /\ strip[0] = ColorOff

\* the range the claim gives for the delays inside a burst
ClaimedDelay(rapid) == IF rapid THEN 100..800 ELSE 1000..4000

\* C15: a runAutoMode call moves only when the delay drawn at the previous
\* move has elapsed since that move; the first call after startup moves at
\* once (delay 0); and while the burst of the last move goes on, the delay
\* drawn at that move lies in 100..800 ms if the burst is rapid and in
\* 1000..4000 ms if it is normal.
C15_MovesRespectDelays ==
  [][/\ (ProgramStep /\ pc = "run" /\ run_mode = MODE_AUTO) =>
          /\ moved' => (IF auto_init THEN since_move ELSE 0) >= move_interval
          /\ ~auto_init => (moved' /\ move_interval = 0)
     /\ burst_moves' >= 1 => move_interval' \in ClaimedDelay(rapid_mode')
    ]_vars

\* C15 witness: the second move of a rapid burst has been issued, the longest
\* rapid delay (799 ms) drawn for the move after it.
C15_Witness ==
  /\ op = "runAutoMode"
  /\ moved
  /\ rapid_mode
  /\ burst_moves >= 2
  /\ move_interval = 799
  /\ since_move = 0

\* C16: a mode behaviour executes infinitely often and every hold-loop and
\* every checkButton call ends (given that a held button is in the end
\* sampled released); the hold-loop is left only on a sample that reads
\* released, and while it runs the mode, the servo angles and the position
\* variables stay as they are.
C16_LoopNeverHalts ==
  /\ []<><<BehaviourStep>>_vars
  /\ (pc \in {"check", "hold"}) ~> (pc = "run")
  /\ [][(ProgramStep /\ pc = "hold") =>
          /\ pc' = "run" => ~button_down
          /\ pc' = "hold" => run_mode' = run_mode
          /\ UNCHANGED <<servoVars, pan_pos, tilt_pos>>]_vars

\* C16 witness: a hold-loop has run (it wrote the laser) and ended, and a
\* mode behaviour has executed after it.
C16_Witness ==
  /\ op \in Behaviours
  /\ pc = "check"
  /\ laser_pin = 0
  /\ ~button_was_pressed

\* C17: the laser output changes only in a pass of the hold-loop, which
\* writes it an intensity in 0..255 mapped from a tilt reading; every other
\* step (behaviours, polls with or without a mode transition, skipped calls)
\* keeps it, so it rests at the intensity the hold-loop wrote last; the
\* module-level laser_brightness keeps its initial value.
C17_LaserOnlyInHoldLoop ==
  [][/\ laser_brightness' = laser_brightness
     /\ laser_brightness' = 255
     /\ laser_pin' # laser_pin => (ProgramStep /\ pc = "hold")
     /\ (ProgramStep /\ pc = "hold") =>
          /\ laser_pin' \in 0..255
          /\ \E r \in 0..1023 : laser_pin' = (r * 255) \div 1023]_vars

\* C17 witness: the hold-loop wrote intensity 0 and ended with a transition
\* into Ambient mode; runLEDMode has run since, the laser still at 0.
C17_Witness ==
  /\ op = "runLEDMode"
  /\ run_mode = MODE_LED
  /\ laser_pin = 0
  /\ laser_brightness = 255

\* C18: at every main-loop iteration boundary and whenever a mode behaviour
\* executes, the status indicator is high exactly when the mode is
\* Autonomous.
C18_IndicatorIffAutonomous == (led_pin = HIGH) <=> (run_mode = MODE_AUTO)

\* C18 witness: an iteration boundary after a runAutoMode call that moved,
\* the indicator high.
C18_Witness ==
  /\ pc = "check"
  /\ op = "runAutoMode"
  /\ moved
  /\ led_pin = HIGH
  /\ events3 = 1

\* the statics of runAutoMode that make up the cadence state
cadenceVars == <<rapid_mode, move_interval, rapid_move_max, normal_move_max,
                 cur_rapid_moves, cur_normal_moves>>

\* the cadence state is consistent
CadenceConsistent ==
  /\ cur_rapid_moves = 0 \/ cur_normal_moves = 0
  /\ cur_rapid_moves > 0 => rapid_mode
  /\ cur_normal_moves > 0 => ~rapid_mode
  /\ cur_rapid_moves <= rapid_move_max
  /\ cur_normal_moves <= normal_move_max
  /\ ~(cur_rapid_moves >= rapid_move_max
         /\ cur_normal_moves >= normal_move_max)

\* C19: after every runAutoMode call at most one of the two move counters
\* is nonzero, a nonzero counter is the one of the current cadence, each
\* counter is at most its ceiling, and the two ceilings are never both
\* reached (so the two resets never fire in the same call); every step that
\* is not a runAutoMode call, in whatever mode, keeps the cadence state.
C19_CadenceConsistent ==
  [][/\ auto_init' => CadenceConsistent'
     /\ ~(ProgramStep /\ pc = "run" /\ run_mode = MODE_AUTO) =>
          UNCHANGED cadenceVars]_vars

\* C19 witness: after two presses of the button or more, a runAutoMode call
\* has made the last move of a rapid burst of the longest quota: the rapid
\* counter at its ceiling, the normal counter zero.
C19_Witness ==
  /\ op = "runAutoMode"
  /\ moved
  /\ rapid_mode
  /\ rapid_move_max = 14
  /\ cur_rapid_moves = 14
  /\ cur_normal_moves = 0
  /\ presses = MaxPresses

\* C20: a poll ends with the memory equal to its last sample of the button;
\* a poll that starts with the memory set ends with exactly one release event
\* and the memory clear, a poll that starts with it clear emits none, and
\* between polls the memory and the count of release events stay as they are:
\* so the poll after one that emitted a release event emits none.
C20_MemoryIsLastSample ==
  [][/\ PollEnd =>
          /\ button_was_pressed' = button_down
          /\ button_was_pressed =>
               /\ fired'
               /\ events3' = (events3 + 1) % 3
               /\ ~button_was_pressed'
          /\ ~button_was_pressed => (~fired' /\ events3' = events3)
     /\ ~PollEnd =>
          /\ button_was_pressed' = button_was_pressed
          /\ events3' = events3]_vars

\* C20 witness: a poll that started with the memory set has run the
\* hold-loop, sampled the button released, emitted the second release event
\* and cleared the memory.
C20_Witness ==
  /\ op = "hold_exit"
  /\ fired
  /\ events3 = 2
  /\ ~button_was_pressed
  /\ ~button_down
  /\ pc = "run"

====
